---- MODULE Spec2Model ----
(***************************************************************************)
(* Pending-request protocol of packages/backend/src/routes/ask.ts:         *)
(* the in-memory map pendingSearches, the registration branch of POST /ask *)
(* with its sweep, the two poll routes, POST /ask/:requestId/dom-results   *)
(* and the detached synthesis task it starts.                              *)
(*                                                                         *)
(* Time is the value of Date.now() relative to the start of the process,   *)
(* in milliseconds.  The event loop runs one handler (or one continuation  *)
(* of the detached task) at a time, so each action below is atomic.  A     *)
(* handler leaves its reply in resp; the reply is sent (ReplySent) before  *)
(* the event loop runs anything else.                                      *)
(*                                                                         *)
(* Spec is the protocol with POST /ask taken from its fan-out decision on. *)
(* SpecAsk follows one POST /ask call await by await from its token check  *)
(* to its reply (proactive refresh, analysis, the two synchronous fetches  *)
(* with their retry on 401, registration or inline synthesis); the         *)
(* variable call holds the locals of that call and stays NoCall in Spec.   *)
(***************************************************************************)
EXTENDS Integers, Sequences, FiniteSets, TLC

VARIABLES pendingSearches, inflight, timers, now, resp, nextId, advances, submissions,
          call, conversations, poller, merging, turns, google_connections

\* the state beyond the memory of the route handlers: the rows of the
\* conversations table, a client poller, one evaluation of the merge, the
\* queries in flight on one conversation, and the stored Google connection
beyond == <<conversations, poller, merging, turns, google_connections>>

vars == <<pendingSearches, inflight, timers, now, resp, nextId, advances, submissions,
          call, beyond>>

(* ------------------------------ bounds -------------------------------- *)

\* number of PendingSearch entries ever registered
MaxRequests == 2
\* number of dom-results submissions accepted (owner, existing entry)
MaxSubmissions == 2
\* number of times the clock is moved
MaxAdvances == 2
\* longest snippet list of one submission
MaxSnippets == 1
\* number of conversations created by POST /ask
MaxConversations == 1
\* longest hit list of one synchronous fetch
MaxHits == 2
\* number of queries that continue a conversation
MaxQueries == 2

(* ------------------------- program constants -------------------------- *)

FiveMinutesMs == 5 * 60 * 1000
TenMinutesMs == 10 * 60 * 1000
MaxQueryLength == 1000      \* z.string().min(1).max(1000)
GraceMs == 30000
DomRelevance == 90           \* relevance 0.9 of a DOM hit, in hundredths

\* the users who send queries, and all authenticated callers: the second
\* user only addresses request ids of the first
Askers == {"u1"}
Users == Askers \cup {"u2"}
RequestIds == 1 .. MaxRequests
Answers == {"a1", "a2"}
NoAnswer == "none"           \* the answer field is undefined

\* source names a dom-results body can carry: the two extension sources and
\* a synchronous source name
SubmitSources == {"linkedin", "whatsapp", "gmail"}

Snippets == {"s"}
SnippetLists == UNION {[1 .. n -> Snippets] : n \in 0 .. MaxSnippets}

\* the delays after which something is observed: the grace window of a
\* finished entry and the age limit of the sweep
Delays == {GraceMs, FiveMinutesMs}

Range(f) == {f[i] : i \in DOMAIN f}

(* --------------------- query analysis and fetches --------------------- *)

\* the (flag-filtered) result of analyzeQuery: which sources the query
\* needs and the keywords extracted for the extension sources
Plan(g, c, l, w, lk, wk) ==
    [needsGmail |-> g, needsCalendar |-> c, needsLinkedIn |-> l, needsWhatsApp |-> w,
     linkedInKeywords |-> lk, whatsAppKeywords |-> wk]

Analyses ==
    { Plan(TRUE, FALSE, FALSE, FALSE, <<>>, <<>>),      \* mail only
      Plan(TRUE, TRUE, FALSE, FALSE, <<>>, <<>>),       \* mail and calendar
      Plan(TRUE, TRUE, TRUE, FALSE, <<"k">>, <<>>),     \* both synchronous sources and one extension source
      Plan(FALSE, FALSE, TRUE, TRUE, <<"k">>, <<"k">>) } \* the two extension sources only

\* outcome of one synchronous fetch after its retry policy: the normalized
\* hits, or a failure that the handler logs and absorbs
FetchOutcomes == {"ok", "fail"}

GmailHits == << [id |-> <<"gmail", 0>>, source |-> "gmail", content |-> "m", relevance |-> 80] >>
CalendarHits == << [id |-> <<"calendar", 0>>, source |-> "calendar", content |-> "c", relevance |-> 70] >>

(* ------------------------------ helpers ------------------------------- *)

NoResp == [op |-> "none"]

\* no client poller runs; no merge is evaluated
NoPoller == [kind |-> "none"]
NoMerge == [path |-> "none"]

\* no query is in flight on a conversation; no OAuth callback has run
NoTurns == <<>>
NoStoredConnection == [via |-> "none"]

\* no POST /ask call is between its token check and its reply
NoCall == [pc |-> "none"]

\* what the body was and what the conversation block and the usage insert
\* did to the tables is followed up to the connection lookup, not further
NoIntake ==
    [body |-> [query |-> 0, conversationId |-> 0],
     deletedConversations |-> <<>>,
     createdConversation |-> FALSE,
     loadedAt |-> 0,
     usageEvents |-> 0]

IfSeq(cond, s) == IF cond THEN s ELSE <<>>

\* snippets.map((snippet, index) => ({id: `${source}-${index}`, ...}))
NormalizeSnippets(source, snippets) ==
    [i \in 1 .. Len(snippets) |->
        [id |-> <<source, i - 1>>, source |-> source,
         content |-> snippets[i], relevance |-> DomRelevance]]

\* results[source] = [...(results[source] || []), ...normalizedResults]
StoreResults_Append(results, source, hits) ==
    [k \in DOMAIN results \cup {source} |->
        IF k = source
        THEN (IF k \in DOMAIN results THEN results[k] ELSE <<>>) \o hits
        ELSE results[k]]

\* pendingSearch.results[source] = normalizedResults
StoreResults(results, source, hits) ==
    [k \in DOMAIN results \cup {source} |->
        IF k = source THEN hits ELSE results[k]]

\* sources_needed.every(src => results[src] && results[src].length > 0)
AllSourcesComplete_NonEmpty(entry) ==
    \A i \in 1 .. Len(entry.sources_needed) :
        /\ entry.sources_needed[i] \in DOMAIN entry.results
        /\ Len(entry.results[entry.sources_needed[i]]) > 0

\* sources_needed.every(src => results[src] && results[src].length >= 0)
AllSourcesComplete(entry) ==
    \A i \in 1 .. Len(entry.sources_needed) :
        /\ entry.sources_needed[i] \in DOMAIN entry.results
        /\ Len(entry.results[entry.sources_needed[i]]) >= 0

\* the entries left after pendingSearches.delete(id) for every id in ids
Without(store, ids) == [r \in DOMAIN store \ ids |-> store[r]]

\* for (const [id, search] of pendingSearches)
\*   if (search.created_at.getTime() < fiveMinutesAgo) pendingSearches.delete(id)
SweepIds(store, t) == {r \in DOMAIN store : store[r].created_at < t - FiveMinutesMs}

\* a timer whose entry is gone only deletes an absent key: it is dropped
LiveTimers(ts, store) == {t \in ts : t.request_id \in DOMAIN store}

\* a synthesis task holds the entry object itself; once the entry has left
\* the map its writes reach an object no handler can find: it is dropped
LiveTasks(tasks, store) == [r \in DOMAIN tasks |-> IF r \in DOMAIN store THEN tasks[r] ELSE 0]

(* ----------------------------- POST /ask ------------------------------ *)

SourcesNeeded(a) ==
    IfSeq(a.needsGmail, <<"gmail">>) \o IfSeq(a.needsCalendar, <<"calendar">>)
    \o IfSeq(a.needsLinkedIn /\ Len(a.linkedInKeywords) > 0, <<"linkedin">>)
    \o IfSeq(a.needsWhatsApp /\ Len(a.whatsAppKeywords) > 0, <<"whatsapp">>)

\* an instruction for every needed extension source, keywords or not
DomInstructions_AllNeeded(a, requestId) ==
    IfSeq(a.needsLinkedIn,
          << [request_id |-> requestId, source |-> "linkedin", keywords |-> a.linkedInKeywords] >>)
    \o IfSeq(a.needsWhatsApp,
          << [request_id |-> requestId, source |-> "whatsapp", keywords |-> a.whatsAppKeywords] >>)

DomInstructions(a, requestId) ==
    IfSeq(a.needsLinkedIn /\ Len(a.linkedInKeywords) > 0,
          << [request_id |-> requestId, source |-> "linkedin", keywords |-> a.linkedInKeywords] >>)
    \o IfSeq(a.needsWhatsApp /\ Len(a.whatsAppKeywords) > 0,
          << [request_id |-> requestId, source |-> "whatsapp", keywords |-> a.whatsAppKeywords] >>)

\* the local array results after steps 2 and 3: a failed fetch pushes nothing
FetchedHits(a, gmail, calendar) ==
    IfSeq(a.needsGmail /\ gmail = "ok", GmailHits)
    \o IfSeq(a.needsCalendar /\ calendar = "ok", CalendarHits)

\* the extension is waited for whatever the async flag says
NeedsExtension_IgnoresFlag(a, enableAsyncMode) ==
    a.needsLinkedIn \/ a.needsWhatsApp

\* featureFlags.enableAsyncMode && (analysis.needsLinkedIn || analysis.needsWhatsApp)
NeedsExtension(a, enableAsyncMode) ==
    enableAsyncMode /\ (a.needsLinkedIn \/ a.needsWhatsApp)

IsGmailHit(h) == h.source = "gmail"
IsCalendarHit(h) == h.source = "calendar"
IsExtensionSource(s) == s = "linkedin" \/ s = "whatsapp"
IsSyncSource(s) == s = "gmail" \/ s = "calendar"

NewPendingSearch(u, a, requestId, hits, t) ==
    [request_id |-> requestId,
     user_id |-> u,
     sources_needed |-> SourcesNeeded(a),
     instructions |-> DomInstructions(a, requestId),
     results |-> [k \in {"gmail", "calendar"} |->
                    IF k = "gmail" THEN SelectSeq(hits, IsGmailHit)
                                   ELSE SelectSeq(hits, IsCalendarHit)],
     status |-> "pending",
     created_at |-> t,
     answer |-> NoAnswer]

\* registration branch: store the entry, sweep, answer 'pending'
AskPending(u, a, gmail, calendar) ==
    /\ nextId <= MaxRequests
    /\ resp = NoResp
    /\ LET requestId == nextId
           entry == NewPendingSearch(u, a, requestId, FetchedHits(a, gmail, calendar), now)
           stored == [r \in DOMAIN pendingSearches \cup {requestId} |->
                        IF r = requestId THEN entry ELSE pendingSearches[r]]
           kept == Without(stored, SweepIds(stored, now))
       IN /\ pendingSearches' = kept
          /\ timers' = LiveTimers(timers, kept)
          /\ inflight' = LiveTasks(inflight, kept)
          /\ nextId' = nextId + 1
          /\ resp' = [op |-> "ask", caller |-> u, code |-> 200,
                      body |-> [status |-> "pending", request_id |-> requestId,
                                requires_extension |-> TRUE,
                                sources_needed |-> SelectSeq(SourcesNeeded(a), IsExtensionSource),
                                instructions |-> DomInstructions(a, requestId)]]
    /\ UNCHANGED <<beyond, call, now, advances, submissions>>

\* synchronous branch: synthesize inline; a throw becomes the 500 reply.
\* The request id of this branch is never stored, so it is not drawn from
\* the ids of the store.
AskSync(u, a, synth) ==
    /\ resp = NoResp
    /\ resp' = IF synth \in Answers
               THEN [op |-> "ask", caller |-> u, code |-> 200,
                     body |-> [status |-> "complete", answer |-> synth,
                               sources_searched |-> SelectSeq(SourcesNeeded(a), IsSyncSource)]]
               ELSE [op |-> "ask", caller |-> u, code |-> 500,
                     body |-> [error |-> "Failed to process query"]]
    /\ UNCHANGED <<beyond, call, pendingSearches, inflight, timers, now, nextId, advances, submissions>>

\* POST /ask from the fan-out decision on (the fetches have ended): nothing
\* is awaited between the decision and the reply of the registration branch.
\* the outcomes a fetch can have: a source that is not needed is not fetched
OutcomesOf(needed) == IF needed THEN FetchOutcomes ELSE {"fail"}

Ask(u, a, enableAsyncMode) ==
    IF NeedsExtension(a, enableAsyncMode)
    THEN \E g \in OutcomesOf(a.needsGmail), c \in OutcomesOf(a.needsCalendar) :
            AskPending(u, a, g, c)
    ELSE \E synth \in Answers \cup {"throw"} : AskSync(u, a, synth)

(* ------------------------------- polls -------------------------------- *)

\* the answer is sent whenever the entry holds one
PollBody_AnyAnswer(entry, requestId) ==
    IF entry.answer # NoAnswer
    THEN [status |-> entry.status, request_id |-> requestId,
          sources_needed |-> entry.sources_needed, answer |-> entry.answer]
    ELSE [status |-> entry.status, request_id |-> requestId,
          sources_needed |-> entry.sources_needed]

PollBody(entry, requestId) ==
    IF entry.status = "complete" /\ entry.answer # NoAnswer
    THEN [status |-> entry.status, request_id |-> requestId,
          sources_needed |-> entry.sources_needed, answer |-> entry.answer]
    ELSE [status |-> entry.status, request_id |-> requestId,
          sources_needed |-> entry.sources_needed]

\* the route without the answer of a complete entry
GetAskResponse_NoAnswer(store, caller, requestId) ==
    IF requestId \notin DOMAIN store
    THEN [code |-> 404, body |-> [error |-> "Search not found"]]
    ELSE IF store[requestId].user_id # caller
    THEN [code |-> 403, body |-> [error |-> "Not authorized"]]
    ELSE [code |-> 200, body |-> [status |-> store[requestId].status, request_id |-> requestId,
                                  sources_needed |-> store[requestId].sources_needed]]

\* GET /ask/:requestId
GetAskResponse(store, caller, requestId) ==
    IF requestId \notin DOMAIN store
    THEN [code |-> 404, body |-> [error |-> "Search not found"]]
    ELSE IF store[requestId].user_id # caller
    THEN [code |-> 403, body |-> [error |-> "Not authorized"]]
    ELSE [code |-> 200, body |-> PollBody(store[requestId], requestId)]

\* the legacy route without its ownership check
GetAskStatusResponse_NoOwnerCheck(store, caller, requestId) ==
    IF requestId \notin DOMAIN store
    THEN [code |-> 404, body |-> [error |-> "Search not found"]]
    ELSE [code |-> 200, body |-> PollBody(store[requestId], requestId)]

\* GET /ask/:requestId/status
GetAskStatusResponse(store, caller, requestId) ==
    IF requestId \notin DOMAIN store
    THEN [code |-> 404, body |-> [error |-> "Search not found"]]
    ELSE IF store[requestId].user_id # caller
    THEN [code |-> 403, body |-> [error |-> "Not authorized"]]
    ELSE [code |-> 200, body |-> PollBody(store[requestId], requestId)]

GetAsk(caller, requestId) ==
    /\ resp = NoResp
    /\ LET r == GetAskResponse(pendingSearches, caller, requestId)
       IN resp' = [op |-> "get", caller |-> caller, request_id |-> requestId,
                   code |-> r.code, body |-> r.body]
    /\ UNCHANGED <<beyond, call, pendingSearches, inflight, timers, now, nextId, advances, submissions>>

GetAskStatus(caller, requestId) ==
    /\ resp = NoResp
    /\ LET r == GetAskStatusResponse(pendingSearches, caller, requestId)
       IN resp' = [op |-> "status", caller |-> caller, request_id |-> requestId,
                   code |-> r.code, body |-> r.body]
    /\ UNCHANGED <<beyond, call, pendingSearches, inflight, timers, now, nextId, advances, submissions>>

(* ------------------- POST /ask/:requestId/dom-results ------------------ *)

DomReply(caller, requestId, source, snippets, code, body) ==
    [op |-> "dom", caller |-> caller, request_id |-> requestId,
     source |-> source, snippets |-> snippets, code |-> code, body |-> body]

\* the hits of a foreign caller are stored before the caller is refused
DomRejected_StoresFirst(caller, requestId, source, snippets) ==
    /\ resp = NoResp
    /\ \/ /\ requestId \notin DOMAIN pendingSearches
          /\ resp' = [op |-> "dom", caller |-> caller, request_id |-> requestId,
                      code |-> 404, body |-> [error |-> "Search not found"]]
          /\ UNCHANGED pendingSearches
       \/ /\ requestId \in DOMAIN pendingSearches
          /\ pendingSearches[requestId].user_id # caller
          /\ resp' = [op |-> "dom", caller |-> caller, request_id |-> requestId,
                      code |-> 403, body |-> [error |-> "Not authorized"]]
          /\ pendingSearches' = [pendingSearches EXCEPT ![requestId].results =
                  StoreResults(@, source, NormalizeSnippets(source, snippets))]
    /\ UNCHANGED <<beyond, call, inflight, timers, now, nextId, advances, submissions>>

DomRejected(caller, requestId, source, snippets) ==
    /\ resp = NoResp
    /\ \/ /\ requestId \notin DOMAIN pendingSearches
          /\ resp' = [op |-> "dom", caller |-> caller, request_id |-> requestId,
                      code |-> 404, body |-> [error |-> "Search not found"]]
       \/ /\ requestId \in DOMAIN pendingSearches
          /\ pendingSearches[requestId].user_id # caller
          /\ resp' = [op |-> "dom", caller |-> caller, request_id |-> requestId,
                      code |-> 403, body |-> [error |-> "Not authorized"]]
    /\ UNCHANGED <<beyond, call, pendingSearches, inflight, timers, now, nextId, advances, submissions>>

\* the synthesis starts as soon as one needed source has a key
AfterSubmission_SpawnsOnAny(entry, source, snippets) ==
    LET written == [entry EXCEPT !.results =
                        StoreResults(entry.results, source, NormalizeSnippets(source, snippets))]
    IN IF \E s \in Range(written.sources_needed) : s \in DOMAIN written.results
       THEN [entry |-> written, spawn |-> 1, status |-> "processing"]
       ELSE [entry |-> [written EXCEPT !.status = "partial"], spawn |-> 0, status |-> "partial"]

\* the entry after the handler has run, and whether it started a synthesis
AfterSubmission(entry, source, snippets) ==
    LET written == [entry EXCEPT !.results =
                        StoreResults(entry.results, source, NormalizeSnippets(source, snippets))]
    IN IF AllSourcesComplete(written)
       THEN [entry |-> written, spawn |-> 1, status |-> "processing"]
       ELSE [entry |-> [written EXCEPT !.status = "partial"], spawn |-> 0, status |-> "partial"]

DomAccepted(caller, requestId, source, snippets) ==
    /\ resp = NoResp
    /\ requestId \in DOMAIN pendingSearches
    /\ pendingSearches[requestId].user_id = caller
    /\ submissions < MaxSubmissions
    /\ LET after == AfterSubmission(pendingSearches[requestId], source, snippets)
       IN /\ pendingSearches' = [pendingSearches EXCEPT ![requestId] = after.entry]
          /\ inflight' = [inflight EXCEPT ![requestId] = @ + after.spawn]
          /\ resp' = DomReply(caller, requestId, source, snippets, 200,
                              [status |-> after.status, request_id |-> requestId])
    /\ submissions' = submissions + 1
    /\ UNCHANGED <<beyond, call, timers, now, nextId, advances>>

DomResults(caller, requestId, source, snippets) ==
    \/ DomRejected(caller, requestId, source, snippets)
    \/ DomAccepted(caller, requestId, source, snippets)

(* --------------------- detached background synthesis ------------------- *)

\* the task stores the answer and leaves the status as it was
SynthesisSucceeds_LeavesStatus(requestId, answer) ==
    /\ resp = NoResp
    /\ inflight[requestId] > 0
    /\ requestId \in DOMAIN pendingSearches
    /\ inflight' = [inflight EXCEPT ![requestId] = @ - 1]
    /\ pendingSearches' = [pendingSearches EXCEPT ![requestId].answer = answer]
    /\ timers' = timers \cup {[request_id |-> requestId, at |-> now + GraceMs]}
    /\ UNCHANGED <<beyond, call, now, resp, nextId, advances, submissions>>

\* the task resumes after synthesizeAnswer and the conversation update:
\* pendingSearch.answer = answer; pendingSearch.status = 'complete';
\* setTimeout(() => pendingSearches.delete(requestId), 30000)
SynthesisSucceeds(requestId, answer) ==
    /\ resp = NoResp
    /\ inflight[requestId] > 0
    /\ requestId \in DOMAIN pendingSearches
    /\ inflight' = [inflight EXCEPT ![requestId] = @ - 1]
    /\ pendingSearches' = [pendingSearches EXCEPT
                             ![requestId].answer = answer,
                             ![requestId].status = "complete"]
    /\ timers' = timers \cup {[request_id |-> requestId, at |-> now + GraceMs]}
    /\ UNCHANGED <<beyond, call, now, resp, nextId, advances, submissions>>

\* the failure of the synthesis is answered to a caller as an error
SynthesisFails_Propagates(requestId) ==
    /\ resp = NoResp
    /\ inflight[requestId] > 0
    /\ requestId \in DOMAIN pendingSearches
    /\ inflight' = [inflight EXCEPT ![requestId] = @ - 1]
    /\ pendingSearches' = [pendingSearches EXCEPT ![requestId].status = "failed"]
    /\ resp' = [op |-> "dom", caller |-> pendingSearches[requestId].user_id,
                request_id |-> requestId, code |-> 500,
                body |-> [error |-> "Failed to process query"]]
    /\ UNCHANGED <<beyond, call, timers, now, nextId, advances, submissions>>

\* catch (error) { pendingSearch.status = 'failed' }
SynthesisFails(requestId) ==
    /\ resp = NoResp
    /\ inflight[requestId] > 0
    /\ requestId \in DOMAIN pendingSearches
    /\ inflight' = [inflight EXCEPT ![requestId] = @ - 1]
    /\ pendingSearches' = [pendingSearches EXCEPT ![requestId].status = "failed"]
    /\ UNCHANGED <<beyond, call, timers, now, resp, nextId, advances, submissions>>

(* ------------------------------- timers ------------------------------- *)

\* the callback deletes its own entry and the oldest entry of the map
TimerFires_DeletesOldest(requestId) ==
    /\ resp = NoResp
    /\ \E t \in timers : t.request_id = requestId /\ t.at <= now
    /\ LET oldest == {r \in DOMAIN pendingSearches : \A o \in DOMAIN pendingSearches : r <= o}
           kept == Without(pendingSearches, {requestId} \cup oldest)
       IN /\ pendingSearches' = kept
          /\ timers' = LiveTimers(timers, kept)
          /\ inflight' = LiveTasks(inflight, kept)
    /\ UNCHANGED <<beyond, call, now, resp, nextId, advances, submissions>>

\* the setTimeout callback, run at its time: pendingSearches.delete(requestId)
TimerFires(requestId) ==
    /\ resp = NoResp
    /\ \E t \in timers : t.request_id = requestId /\ t.at <= now
    /\ LET kept == Without(pendingSearches, {requestId})
       IN /\ pendingSearches' = kept
          /\ timers' = LiveTimers(timers, kept)
          /\ inflight' = LiveTasks(inflight, kept)
    /\ UNCHANGED <<beyond, call, now, resp, nextId, advances, submissions>>

\* the clock moves by d; the callbacks of the timers whose time lies
\* strictly before the new time have run by then
Advance(d) ==
    /\ resp = NoResp
    /\ advances < MaxAdvances
    /\ now' = now + d
    /\ advances' = advances + 1
    /\ LET due == {t.request_id : t \in {x \in timers : x.at < now + d}}
           kept == Without(pendingSearches, due)
       IN /\ pendingSearches' = kept
          /\ timers' = LiveTimers(timers, kept)
          /\ inflight' = LiveTasks(inflight, kept)
    /\ UNCHANGED <<beyond, call, resp, nextId, submissions>>

(* ------------------- POST /ask, body and conversations ------------------ *)

\* A query is named by the length of its string and a conversation id by a
\* number; Absent is a missing field, NotAUuid a string that is no UUID, and
\* every positive number a well-formed UUID.
Absent == -1
NotAUuid == 0

\* rows of the conversations table at the start of the process, all of the
\* asking user: one older than ten minutes, one exactly ten minutes old, one
\* fresh; UnknownConversation is the id of no row
ExpiredConversation == 1
BoundaryConversation == 2
FreshConversation == 3
UnknownConversation == 9
FirstNewConversation == 10

InitialConversations ==
    [id \in {ExpiredConversation, BoundaryConversation, FreshConversation} |->
        [user_id |-> "u1",
         messages |-> <<"turn">>,
         updated_at |-> IF id = ExpiredConversation THEN 0 - TenMinutesMs - 1
                        ELSE IF id = BoundaryConversation THEN 0 - TenMinutesMs
                        ELSE 0]]

QueryInputs == {Absent, 0, 1, MaxQueryLength, MaxQueryLength + 1}
ConversationInputs ==
    {Absent, NotAUuid, ExpiredConversation, BoundaryConversation, FreshConversation,
     UnknownConversation}
Bodies == [query : QueryInputs, conversationId : ConversationInputs]

\* the time in milliseconds that the awaits between two reads of the clock
\* inside one handler can take
AwaitMs == {0, 1}

\* askRequestSchema.safeParse(request.body).success, without the upper bound
safeParse_NoMax(body) ==
    /\ body.query # Absent
    /\ body.query >= 1
    /\ body.conversationId = Absent \/ body.conversationId > NotAUuid

\* askRequestSchema.safeParse(request.body).success
safeParse(body) ==
    /\ body.query # Absent
    /\ body.query >= 1
    /\ body.query <= MaxQueryLength
    /\ body.conversationId = Absent \/ body.conversationId > NotAUuid

\* .delete().eq('user_id', userId).lt('updated_at', tenMinutesAgoISO)
ExpiredRows(rows, u, t) ==
    {id \in DOMAIN rows : rows[id].user_id = u /\ rows[id].updated_at < t - TenMinutesMs}

\* googleConnection.token_expires_at: null, or an instant
NoExpiry == [known |-> FALSE, at |-> 0]
Expiry(t) == [known |-> TRUE, at |-> t]

\* the row of the connections table, if any, and whether its tokens decrypt
NoConnection == [found |-> FALSE, decryptable |-> FALSE, token_expires_at |-> NoExpiry]
\* (the expiry lies just before, at, or just after the instant 0 at which
\* the clock stands while single calls are followed)
Connections ==
    {NoConnection}
    \cup [found : {TRUE}, decryptable : BOOLEAN,
          token_expires_at : {NoExpiry, Expiry(0 - 1), Expiry(0), Expiry(1)}]

\* !tokenExpiry || tokenExpiry < new Date()
IsExpired(tokenExpiry, t) == ~tokenExpiry.known \/ tokenExpiry.at < t

\* a row whose tokens do not decrypt is used all the same
ConnectionError_IgnoresDecrypt(connection) ==
    IF ~connection.found THEN "notConnected" ELSE "none"

\* if (connectionError || !googleConnection) ...; try { decryptTokens } catch ...
ConnectionError(connection) ==
    IF ~connection.found THEN "notConnected"
    ELSE IF ~connection.decryptable THEN "decryptionFailed"
    ELSE "none"

(* -------------------- POST /ask, one call step by step ------------------ *)

\* One call is followed await by await: the conversation block, the usage
\* event, the connection lookup, the proactive refresh, the analysis,
\* the two synchronous fetches with their retry on 401, and the branch to
\* registration or to inline synthesis.  An access token is named by the
\* number of the refresh that returned it; 0 is the token read from the
\* connection row.

\* the plans of one call: those of Analyses, and plans in which an extension
\* source is needed but analyzeQuery extracted no keywords for it
AskAnalyses ==
    Analyses \cup { Plan(FALSE, FALSE, TRUE, TRUE, <<"k">>, <<>>),
                    Plan(FALSE, FALSE, TRUE, FALSE, <<>>, <<>>) }

SyncSources == {"gmail", "calendar"}

\* what one await of searchGmail / getCalendarEvents can give
AttemptOutcomes == {"ok", "unauthorized", "error"}

NoAnalysis == Plan(FALSE, FALSE, FALSE, FALSE, <<>>, <<>>)

\* the attempts made for one source (token used, outcome), the reactive
\* refreshes made for it, and how its try block ended
NoFetch == [attempts |-> <<>>, refreshes |-> <<>>, failed |-> FALSE, ended |-> FALSE]

\* the locals of the handler when it starts on a body that passed validation
NewCall(u, body) ==
    [pc |-> "cleanup",
     source |-> "none",
     user_id |-> u,
     intake |-> [body |-> body,
                 deletedConversations |-> <<>>,
                 createdConversation |-> FALSE,
                 loadedAt |-> 0,
                 usageEvents |-> 0],
     currentConversationId |-> body.conversationId,
     conversationHistory |-> <<>>,
     googleConnection |-> NoConnection,
     checkedAt |-> 0,
     proactive |-> FALSE,
     accessToken |-> 0,
     refreshes |-> 0,
     analysis |-> NoAnalysis,
     enableAsyncMode |-> FALSE,
     sourcesNeeded |-> <<>>,
     results |-> <<>>,
     fetch |-> [s \in SyncSources |-> NoFetch],
     request_id |-> 0,
     answer |-> NoAnswer,
     outcome |-> "none"]

\* a reactive refresh stores the new token in the row, but the local
\* accessToken keeps its value
refreshAndUpdateToken_KeepsLocal(c, ok) ==
    [c EXCEPT !.refreshes = @ + 1,
              !.accessToken = IF ok /\ c.pc = "refresh" THEN c.refreshes + 1 ELSE @]

\* one invocation of refreshAndUpdateToken: it returns the new token or throws
refreshAndUpdateToken(c, ok) ==
    [c EXCEPT !.refreshes = @ + 1,
              !.accessToken = IF ok THEN c.refreshes + 1 ELSE @]

\* any error but a 401 counted as unauthorized
IsUnauthorized_AnyError(outcome) == outcome # "ok"

\* error?.code === 401 || error?.status === 401 || ...
IsUnauthorized(outcome) == outcome = "unauthorized"

HitsOf(s) == IF s = "gmail" THEN GmailHits ELSE CalendarHits

\* the handler returns
Finish(c, outcome) == [c EXCEPT !.pc = "done", !.source = "none", !.outcome = outcome]

\* step 4: the extension sources with keywords join sourcesNeeded
Decide(c) ==
    [c EXCEPT !.pc = "decide", !.source = "none",
              !.sourcesNeeded = @ \o SelectSeq(SourcesNeeded(c.analysis), IsExtensionSource)]

\* if (analysis.needsX) { sourcesNeeded.push('x'); try { ...
EnterSource(c, s) ==
    [c EXCEPT !.pc = IF s = "gmail" THEN "plan" ELSE "first",
              !.source = s,
              !.sourcesNeeded = Append(@, s)]

AfterGmail(c) == IF c.analysis.needsCalendar THEN EnterSource(c, "calendar") ELSE Decide(c)

AfterAnalysis(c) == IF c.analysis.needsGmail THEN EnterSource(c, "gmail") ELSE AfterGmail(c)

NextSource(c) == IF c.source = "gmail" THEN AfterGmail(c) ELSE Decide(c)

\* results.push(...normalizeXResults(...))
FetchSucceeded(c) ==
    NextSource([c EXCEPT !.results = @ \o HitsOf(c.source),
                         !.fetch[c.source].ended = TRUE])

\* the error leaves the handler's try block
FetchFailed_Rethrows(c) ==
    Finish([c EXCEPT !.fetch[c.source].failed = TRUE,
                     !.fetch[c.source].ended = TRUE], "fetchFailed")

\* catch (error) { fastify.log.error(error, 'Gmail search failed') }
FetchFailed(c) ==
    NextSource([c EXCEPT !.fetch[c.source].failed = TRUE,
                         !.fetch[c.source].ended = TRUE])

\* what the handler returns once the call has ended
ReplyOf(c) ==
    IF c.pc # "done" THEN NoResp
    ELSE IF c.outcome = "registered"
    THEN [op |-> "ask", caller |-> c.user_id, code |-> 200,
          body |-> [status |-> "pending", request_id |-> c.request_id,
                    requires_extension |-> TRUE,
                    sources_needed |-> SelectSeq(c.sourcesNeeded, IsExtensionSource),
                    instructions |-> DomInstructions(c.analysis, c.request_id)]]
    ELSE IF c.outcome = "synthesized"
    THEN [op |-> "ask", caller |-> c.user_id, code |-> 200,
          body |-> [status |-> "complete", answer |-> c.answer,
                    sources_searched |-> SelectSeq(c.sourcesNeeded, IsSyncSource)]]
    ELSE IF c.outcome = "refreshFailed"
    THEN [op |-> "ask", caller |-> c.user_id, code |-> 400,
          body |-> [error |-> "Failed to refresh Google token. Please reconnect your account.",
                    code |-> "TOKEN_REFRESH_FAILED"]]
    ELSE IF c.outcome = "invalid"
    THEN [op |-> "ask", caller |-> c.user_id, code |-> 400,
          body |-> [error |-> "Invalid request body"]]
    ELSE IF c.outcome = "notConnected"
    THEN [op |-> "ask", caller |-> c.user_id, code |-> 400,
          body |-> [error |-> "Google account not connected",
                    code |-> "GOOGLE_NOT_CONNECTED"]]
    ELSE IF c.outcome = "decryptionFailed"
    THEN [op |-> "ask", caller |-> c.user_id, code |-> 500,
          body |-> [error |-> "Failed to decrypt stored tokens. Please reconnect your account.",
                    code |-> "DECRYPTION_FAILED"]]
    ELSE [op |-> "ask", caller |-> c.user_id, code |-> 500,
          body |-> [error |-> "Failed to process query"]]

\* a continuation of the call that does not touch the store
Continue(c) ==
    /\ call' = c
    /\ resp' = ReplyOf(c)
    /\ UNCHANGED <<beyond, pendingSearches, inflight, timers, now, nextId, advances, submissions>>

\* a continuation of the call that writes the conversations table
ContinueWith(c, rows) ==
    /\ call' = c
    /\ resp' = ReplyOf(c)
    /\ conversations' = rows
    /\ UNCHANGED <<poller, merging, turns, google_connections>>
    /\ UNCHANGED <<pendingSearches, inflight, timers, now, nextId, advances, submissions>>

\* the handler starts: validation, then the first await (the cleanup)
AskReceive(u, body) ==
    /\ resp = NoResp
    /\ call = NoCall
    /\ Continue(IF safeParse(body) THEN NewCall(u, body)
                ELSE Finish(NewCall(u, body), "invalid"))

\* the rows of this user older than ten minutes are deleted
CleanupConversations ==
    /\ call.pc = "cleanup"
    /\ LET gone == ExpiredRows(conversations, call.user_id, now)
       IN ContinueWith(
            [call EXCEPT !.intake.deletedConversations = [id \in gone |-> conversations[id]],
                         !.pc = IF call.currentConversationId # Absent
                                THEN "load" ELSE "create"],
            [id \in DOMAIN conversations \ gone |-> conversations[id]])

\* select the conversation (the client sees the rows of its user); elapsed is
\* the time since the cleanup read the clock
LoadConversation(elapsed) ==
    /\ call.pc = "load"
    /\ LET id == call.currentConversationId
           found == id \in DOMAIN conversations /\ conversations[id].user_id = call.user_id
           c == [call EXCEPT !.intake.loadedAt = now + elapsed]
       IN Continue(IF found /\ ~(conversations[id].updated_at < now + elapsed - TenMinutesMs)
                   THEN [c EXCEPT !.conversationHistory = conversations[id].messages,
                                  !.pc = "usage"]
                   ELSE [c EXCEPT !.currentConversationId = Absent, !.pc = "create"])

\* insert a conversation with no messages and take its id
CreateConversation ==
    /\ call.pc = "create"
    /\ Cardinality({id \in DOMAIN conversations : id >= FirstNewConversation})
          < MaxConversations
    /\ LET id == FirstNewConversation
                   + Cardinality({i \in DOMAIN conversations : i >= FirstNewConversation})
       IN ContinueWith(
            [call EXCEPT !.currentConversationId = id,
                         !.intake.createdConversation = TRUE,
                         !.pc = "usage"],
            [i \in DOMAIN conversations \cup {id} |->
                IF i = id
                THEN [user_id |-> call.user_id, messages |-> <<>>, updated_at |-> now]
                ELSE conversations[i]])

\* insert the usage event; an error is logged only
InsertUsageEvent(ok) ==
    /\ call.pc = "usage"
    /\ Continue([call EXCEPT !.intake.usageEvents = IF ok THEN 1 ELSE 0,
                             !.pc = "connection"])

\* the connection row arrives; decryption and the expiry test follow without
\* an await
AskEnter(connection) ==
    /\ call.pc = "connection"
    /\ LET c == [call EXCEPT !.googleConnection = connection,
                             !.checkedAt = now,
                             !.intake = NoIntake]
       IN Continue(IF ConnectionError(connection) # "none"
                   THEN Finish(c, ConnectionError(connection))
                   ELSE [c EXCEPT !.pc = IF IsExpired(connection.token_expires_at, now)
                                         THEN "refresh" ELSE "analyze"])

\* try { accessToken = await refreshAndUpdateToken() } catch { return 400 }
ProactiveRefresh(ok) ==
    /\ call.pc = "refresh"
    /\ LET c == [refreshAndUpdateToken(call, ok) EXCEPT !.proactive = TRUE]
       IN Continue(IF ok THEN [c EXCEPT !.pc = "analyze"] ELSE Finish(c, "refreshFailed"))

\* getFeatureFlags, analyzeQuery, filterAnalysisByFlags; a throw reaches the
\* catch of the handler.  A plan that leads to a registration is drawn only
\* while request ids are left.
Analyze(a, enableAsyncMode, ok) ==
    /\ call.pc = "analyze"
    /\ NeedsExtension(a, enableAsyncMode) => nextId <= MaxRequests
    /\ Continue(IF ok
                THEN AfterAnalysis([call EXCEPT !.analysis = a,
                                                !.enableAsyncMode = enableAsyncMode])
                ELSE Finish(call, "analysisFailed"))

\* gmailPlan = await planGmailQuery(query, conversationHistory)
PlanGmail(ok) ==
    /\ call.pc = "plan"
    /\ Continue(IF ok THEN [call EXCEPT !.pc = "first"] ELSE FetchFailed(call))

\* the first await of searchGmail / getCalendarEvents
FirstAttempt(outcome) ==
    /\ call.pc = "first"
    /\ LET c == [call EXCEPT !.fetch[call.source].attempts =
                                Append(@, [token |-> call.accessToken, outcome |-> outcome])]
       IN Continue(IF outcome = "ok" THEN FetchSucceeded(c)
                   ELSE IF IsUnauthorized(outcome) THEN [c EXCEPT !.pc = "unauthorized"]
                   ELSE FetchFailed(c))

\* accessToken = await refreshAndUpdateToken(), inside the 401 branch
ReactiveRefresh(ok) ==
    /\ call.pc = "unauthorized"
    /\ LET r == refreshAndUpdateToken(call, ok)
           c == [r EXCEPT !.fetch[call.source].refreshes =
                             Append(@, [ok |-> ok, token |-> r.accessToken])]
       IN Continue(IF ok THEN [c EXCEPT !.pc = "retry"] ELSE FetchFailed(c))

\* the second await of searchGmail / getCalendarEvents: any error is thrown on
RetryAttempt(outcome) ==
    /\ call.pc = "retry"
    /\ LET c == [call EXCEPT !.fetch[call.source].attempts =
                                Append(@, [token |-> call.accessToken, outcome |-> outcome])]
       IN Continue(IF outcome = "ok" THEN FetchSucceeded(c) ELSE FetchFailed(c))

\* if (needsExtension) { pendingSearches.set(...); sweep; return pending }
AskRegister ==
    /\ call.pc = "decide"
    /\ NeedsExtension(call.analysis, call.enableAsyncMode)
    /\ nextId <= MaxRequests
    /\ LET requestId == nextId
           entry == NewPendingSearch(call.user_id, call.analysis, requestId, call.results, now)
           stored == [r \in DOMAIN pendingSearches \cup {requestId} |->
                        IF r = requestId THEN entry ELSE pendingSearches[r]]
           kept == Without(stored, SweepIds(stored, now))
           c == Finish([call EXCEPT !.request_id = requestId], "registered")
       IN /\ pendingSearches' = kept
          /\ timers' = LiveTimers(timers, kept)
          /\ inflight' = LiveTasks(inflight, kept)
          /\ nextId' = nextId + 1
          /\ call' = c
          /\ resp' = ReplyOf(c)
    /\ UNCHANGED <<beyond, now, advances, submissions>>

\* const answer = await synthesizeAnswer(...); return complete
Synthesize(synth) ==
    /\ call.pc = "decide"
    /\ ~NeedsExtension(call.analysis, call.enableAsyncMode)
    /\ Continue(IF synth \in Answers
                THEN Finish([call EXCEPT !.answer = synth], "synthesized")
                ELSE Finish(call, "synthesisFailed"))

(* ------------------------------- replies ------------------------------ *)

\* the handler's return value (or reply.code(..).send(..)) goes out
ReplySent ==
    /\ resp # NoResp
    /\ resp' = NoResp
    /\ call' = NoCall
    /\ UNCHANGED <<beyond, pendingSearches, inflight, timers, now, nextId, advances, submissions>>

(* -------------------------------- merge -------------------------------- *)

\* The body of mergeResults (lib/normalizer.js) is taken from the contract of
\* merge: concatenate the hit sets, order by relevance descending, ties in
\* input order.  What is followed here is how the two callers build its
\* argument list: the flat array results of the synchronous path, and
\* Object.values(pendingSearch.results) of the synthesis task, where an
\* object lists its keys in the order of their first assignment.

\* relevance scores, in hundredths
Relevances == {40, 90, 95}

\* the hit lists a synchronous fetch can have pushed
FetchedLists(source) ==
    UNION {[1 .. n -> [id : {<<source, 0>>, <<source, 1>>}, source : {source},
                       content : {"m"}, relevance : Relevances]] : n \in 0 .. MaxHits}

DistinctIds(hits) == \A i, j \in 1 .. Len(hits) : hits[i].id = hits[j].id => i = j

RECURSIVE Flatten(_)
Flatten(hitSets) ==
    IF hitSets = <<>> THEN <<>> ELSE Head(hitSets) \o Flatten(Tail(hitSets))

\* the hit goes behind every hit of greater or equal relevance
InsertHit(sorted, h) ==
    LET before == SelectSeq(sorted, LAMBDA x : x.relevance >= h.relevance)
        after == SelectSeq(sorted, LAMBDA x : x.relevance < h.relevance)
    IN before \o <<h>> \o after

RECURSIVE SortHits(_, _)
SortHits(sorted, rest) ==
    IF rest = <<>> THEN sorted ELSE SortHits(InsertHit(sorted, Head(rest)), Tail(rest))

mergeResults(hitSets) == SortHits(<<>>, Flatten(hitSets))

\* a new key is listed before the keys assigned earlier
SetKey_Prepend(object, key, hits) ==
    IF \E i \in 1 .. Len(object) : object[i].key = key
    THEN [i \in 1 .. Len(object) |->
             IF object[i].key = key THEN [key |-> key, hits |-> hits] ELSE object[i]]
    ELSE <<[key |-> key, hits |-> hits]>> \o object

\* obj[key] = hits on an object given as the list of its properties
SetKey(object, key, hits) ==
    IF \E i \in 1 .. Len(object) : object[i].key = key
    THEN [i \in 1 .. Len(object) |->
             IF object[i].key = key THEN [key |-> key, hits |-> hits] ELSE object[i]]
    ELSE Append(object, [key |-> key, hits |-> hits])

\* Object.values(obj)
ObjectValues(object) == [i \in 1 .. Len(object) |-> object[i].hits]

\* the object as the store of the protocol holds it
ObjectAsResults(object) ==
    [k \in {object[i].key : i \in 1 .. Len(object)} |->
        (CHOOSE p \in Range(object) : p.key = k).hits]

\* the lists of sources_needed an entry can have (see Analyses)
NeededLists == {<<"gmail", "calendar", "linkedin">>, <<"linkedin", "whatsapp">>}

\* synchronous path: mergeResults(results) on the array the fetches pushed to
MergeSync(gmail, calendar) ==
    /\ merging = NoMerge
    /\ DistinctIds(gmail) /\ DistinctIds(calendar)
    /\ merging' = [path |-> "sync", sources_needed |-> <<>>, object |-> <<>>,
                   input |-> << gmail \o calendar >>,
                   output |-> mergeResults(<< gmail \o calendar >>),
                   ran |-> TRUE]
    /\ UNCHANGED <<pendingSearches, inflight, timers, now, resp, nextId, advances,
                   submissions, call, conversations, poller, turns, google_connections>>

\* registration: results: {gmail: ..., calendar: ...}
MergeRegister(needed, gmail, calendar) ==
    /\ merging = NoMerge
    /\ DistinctIds(gmail) /\ DistinctIds(calendar)
    /\ merging' = [path |-> "background", sources_needed |-> needed,
                   object |-> << [key |-> "gmail", hits |-> gmail],
                                 [key |-> "calendar", hits |-> calendar] >>,
                   input |-> <<>>, output |-> <<>>, ran |-> FALSE]
    /\ UNCHANGED <<pendingSearches, inflight, timers, now, resp, nextId, advances,
                   submissions, call, conversations, poller, turns, google_connections>>

\* dom-results: results[source] = normalizedResults; if every needed source
\* has a key the task starts and calls mergeResults(...Object.values(results))
\* before its first await
MergeSubmit(source, snippets) ==
    /\ merging.path = "background"
    /\ LET object == SetKey(merging.object, source, NormalizeSnippets(source, snippets))
           entry == [sources_needed |-> merging.sources_needed,
                     results |-> ObjectAsResults(object)]
       IN merging' = IF AllSourcesComplete(entry)
                     THEN [merging EXCEPT !.object = object,
                                          !.input = ObjectValues(object),
                                          !.output = mergeResults(ObjectValues(object)),
                                          !.ran = TRUE]
                     ELSE [merging EXCEPT !.object = object]
    /\ merging' # merging
    /\ UNCHANGED <<pendingSearches, inflight, timers, now, resp, nextId, advances,
                   submissions, call, conversations, poller, turns, google_connections>>

(* ---------------------------- client pollers --------------------------- *)

\* const maxAttempts = 30 (webapp), const maxAttempts = 60 (extension)
WebappMaxAttempts == 30
ExtensionMaxAttempts == 60

\* what one poll can come back with: the status of the entry, a 404 for an
\* entry that is gone, or a fetch that throws
PollOutcomes == {"pending", "partial", "processing", "complete", "failed", "notFound", "throws"}

\* the second fetch of the extension after a 'complete' status
AnswerOutcomes == {"answer", "noAnswer", "notOk", "throws"}

\* poll(): the first call of the poller; polls counts the runs of poll
NewPoller(kind) ==
    [kind |-> kind, attempts |-> 0, scheduled |-> TRUE, shown |-> "none",
     last |-> "none", sawComplete |-> FALSE, polls |-> 0]

\* setResponse / resultsDiv.innerHTML = ...; return
Show(p, reply, what) ==
    [p EXCEPT !.scheduled = FALSE, !.shown = what, !.last = reply,
              !.sawComplete = @ \/ reply = "complete", !.polls = @ + 1]

\* attempts++; setTimeout(poll, 1000)
PollAgain(p, reply) ==
    [p EXCEPT !.attempts = @ + 1, !.last = reply, !.sawComplete = @ \/ reply = "complete",
              !.polls = @ + 1]

\* attempts++; no timer is set
GiveUp(p, reply, what) ==
    [p EXCEPT !.attempts = @ + 1, !.scheduled = FALSE, !.shown = what, !.last = reply,
              !.sawComplete = @ \/ reply = "complete", !.polls = @ + 1]

\* pollForResults of the web application: one run of poll
pollForResults(p, reply) ==
    IF reply = "throws"
    THEN IF p.attempts + 1 < WebappMaxAttempts
         THEN PollAgain(p, reply)
         ELSE GiveUp(p, reply, p.shown)
    ELSE IF reply = "complete" \/ p.attempts >= WebappMaxAttempts
         THEN Show(p, reply, "complete")
         ELSE PollAgain(p, reply)

\* pollAskResults of the extension: one run of poll; a response that is not
\* ok, and a second fetch that throws, reach the catch
pollAskResults(p, reply, second) ==
    IF reply \in {"throws", "notFound"} \/ (reply = "complete" /\ second = "throws")
    THEN IF p.attempts + 1 < ExtensionMaxAttempts
         THEN PollAgain(p, reply)
         ELSE GiveUp(p, reply, "error")
    ELSE IF reply = "complete"
         THEN Show(p, reply, "complete")
         ELSE IF p.attempts + 1 < ExtensionMaxAttempts
              THEN PollAgain(p, reply)
              ELSE GiveUp(p, reply, "timedOut")

\* the pending reply of POST /ask starts a poller
StartPoller(kind) ==
    /\ poller = NoPoller
    /\ poller' = NewPoller(kind)
    /\ UNCHANGED <<pendingSearches, inflight, timers, now, resp, nextId, advances,
                   submissions, call, conversations, merging, turns, google_connections>>

WebappPoll(reply) ==
    /\ poller.kind = "webapp" /\ poller.scheduled
    /\ poller' = pollForResults(poller, reply)
    /\ UNCHANGED <<pendingSearches, inflight, timers, now, resp, nextId, advances,
                   submissions, call, conversations, merging, turns, google_connections>>

ExtensionPoll(reply, second) ==
    /\ poller.kind = "extension" /\ poller.scheduled
    /\ poller' = pollAskResults(poller, reply, second)
    /\ UNCHANGED <<pendingSearches, inflight, timers, now, resp, nextId, advances,
                   submissions, call, conversations, merging, turns, google_connections>>

(* ---------------------- turns of one conversation ---------------------- *)

\* the conversations that two queries of the same user can both continue
SharedConversations == {BoundaryConversation, FreshConversation}

\* the two paths that append a turn: POST /ask answering inline, and the
\* synthesis task of a registered request
TurnPaths == {"sync", "background"}

\* {role: 'user', content: query}, {role: 'assistant', content: answer.answer}
TurnOf(q) == << [role |-> "user", query |-> q], [role |-> "assistant", query |-> q] >>

\* the query reads the row: conversation.messages becomes conversationHistory
TurnLoad(path, id) ==
    /\ Len(turns) < MaxQueries
    /\ turns' = Append(turns, [path |-> path, conversation_id |-> id, pc |-> "loaded",
                               conversationHistory |-> conversations[id].messages])
    /\ UNCHANGED <<pendingSearches, inflight, timers, now, resp, nextId, advances,
                   submissions, call, conversations, poller, merging, google_connections>>

\* updatedHistory = [...conversationHistory, {user}, {assistant}]
UpdatedHistory(t, q) == t.conversationHistory \o TurnOf(q)

\* synthesizeAnswer returns and the row is updated with updatedHistory
TurnWrite(q) ==
    /\ q \in DOMAIN turns /\ turns[q].pc = "loaded"
    /\ turns' = [turns EXCEPT ![q].pc = "complete"]
    /\ conversations' = [conversations EXCEPT
                            ![turns[q].conversation_id].messages =
                                UpdatedHistory(turns[q], q),
                            ![turns[q].conversation_id].updated_at = now]
    /\ UNCHANGED <<pendingSearches, inflight, timers, now, resp, nextId, advances,
                   submissions, call, poller, merging, google_connections>>

\* synthesizeAnswer throws: the catch is reached and no row is written
TurnFails(q) ==
    /\ q \in DOMAIN turns /\ turns[q].pc = "loaded"
    /\ turns' = [turns EXCEPT ![q].pc = "failed"]
    /\ UNCHANGED <<pendingSearches, inflight, timers, now, resp, nextId, advances,
                   submissions, call, conversations, poller, merging, google_connections>>

(* --------------------- the stored Google connection -------------------- *)

\* Date.now() is a time since 1970; the process starts at ProcessStart
ProcessStart == 1000000000
DateNow(t) == ProcessStart + t

\* 3600 * 1000 (the callback), 3600000 (the refresh)
HourMs == 3600 * 1000

\* the lifetime of the access token the provider issues, short enough for
\* the clock to pass it; Absent: the provider reports no expiry_date
TokenLifetimes == Delays
ReportedLifetimes == TokenLifetimes \cup {Absent}

\* tokens.expiry_date: the instant at which the access token expires
ExpiryDate(t, lifetime) == IF lifetime = Absent THEN NoExpiry ELSE Expiry(DateNow(t) + lifetime)

\* new Date(Date.now() + (tokens.expiry_date || 3600 * 1000))
CallbackExpiry(t, expiry_date) ==
    Expiry(DateNow(t) + (IF expiry_date.known THEN expiry_date.at ELSE HourMs))

\* new Date(newTokens.expiry_date || Date.now() + 3600000)
RefreshExpiry(t, expiry_date) ==
    Expiry(IF expiry_date.known THEN expiry_date.at ELSE DateNow(t) + HourMs)

NoCheck == [made |-> FALSE, at |-> 0, refreshed |-> FALSE]

\* GET /google/callback: the tokens of the code exchange are upserted
GoogleCallback(lifetime) ==
    /\ google_connections' =
           [via |-> "callback",
            issued_at |-> DateNow(now),
            expiry_date |-> ExpiryDate(now, lifetime),
            token_expires_at |-> CallbackExpiry(now, ExpiryDate(now, lifetime)),
            checked |-> NoCheck]
    /\ UNCHANGED <<pendingSearches, inflight, timers, now, resp, nextId, advances,
                   submissions, call, conversations, poller, merging, turns>>

\* POST /ask reads the row: if (!tokenExpiry || tokenExpiry < new Date())
\* it refreshes; if it does not and a fetch is answered 401 it refreshes
\* then; refreshAndUpdateToken updates access_token and token_expires_at of
\* the row.  checked records the test and whether it led to the refresh.
AskTokenCheck(lifetime, unauthorized) ==
    /\ google_connections.via # "none"
    /\ LET proactive == IsExpired(google_connections.token_expires_at, DateNow(now))
           checked == [made |-> TRUE, at |-> DateNow(now), refreshed |-> proactive]
       IN google_connections' =
              IF proactive \/ unauthorized
              THEN [via |-> "refresh",
                    issued_at |-> DateNow(now),
                    expiry_date |-> ExpiryDate(now, lifetime),
                    token_expires_at |-> RefreshExpiry(now, ExpiryDate(now, lifetime)),
                    checked |-> checked]
              ELSE [google_connections EXCEPT !.checked = checked]
    /\ UNCHANGED <<pendingSearches, inflight, timers, now, resp, nextId, advances,
                   submissions, call, conversations, poller, merging, turns>>

(* ---------------------------- specification --------------------------- *)

Init ==
    /\ pendingSearches = <<>>
    /\ inflight = [r \in RequestIds |-> 0]
    /\ timers = {}
    /\ now = 0
    /\ resp = NoResp
    /\ nextId = 1
    /\ advances = 0
    /\ submissions = 0
    /\ call = NoCall
    /\ conversations = InitialConversations
    /\ poller = NoPoller
    /\ merging = NoMerge
    /\ turns = NoTurns
    /\ google_connections = NoStoredConnection

Next ==
    \/ \E u \in Askers, a \in Analyses, f \in BOOLEAN : Ask(u, a, f)
    \/ \E u \in Users, r \in RequestIds : GetAsk(u, r)
    \/ \E u \in Users, r \in RequestIds : GetAskStatus(u, r)
    \/ \E u \in Users, r \in RequestIds, src \in SubmitSources, sn \in SnippetLists :
            DomResults(u, r, src, sn)
    \/ \E r \in RequestIds, ans \in Answers : SynthesisSucceeds(r, ans)
    \/ \E r \in RequestIds : SynthesisFails(r)
    \/ \E r \in RequestIds : TimerFires(r)
    \/ \E d \in Delays : Advance(d)
    \/ ReplySent

Spec == Init /\ [][Next]_vars

\* one POST /ask call at a time, step by step
NextAsk ==
    \/ \E u \in Askers, body \in Bodies : AskReceive(u, body)
    \/ CleanupConversations
    \/ \E elapsed \in AwaitMs : LoadConversation(elapsed)
    \/ CreateConversation
    \/ \E ok \in BOOLEAN : InsertUsageEvent(ok)
    \/ \E connection \in Connections : AskEnter(connection)
    \/ \E ok \in BOOLEAN : ProactiveRefresh(ok)
    \/ \E a \in AskAnalyses, f \in BOOLEAN, ok \in BOOLEAN : Analyze(a, f, ok)
    \/ \E ok \in BOOLEAN : PlanGmail(ok)
    \/ \E o \in AttemptOutcomes : FirstAttempt(o)
    \/ \E ok \in BOOLEAN : ReactiveRefresh(ok)
    \/ \E o \in AttemptOutcomes : RetryAttempt(o)
    \/ AskRegister
    \/ \E synth \in Answers \cup {"throw"} : Synthesize(synth)
    \/ ReplySent

SpecAsk == Init /\ [][NextAsk]_vars

\* the handlers that write the store and the synthesis tasks they start
\* (the extension enabled, submissions without snippets: what a submission
\* holds does not decide whether a task starts or ends)
NextTasks ==
    \/ \E u \in Askers, a \in Analyses : Ask(u, a, TRUE)
    \/ \E u \in Users, r \in RequestIds, src \in SubmitSources :
            DomAccepted(u, r, src, <<>>)
    \/ \E r \in RequestIds, ans \in Answers : SynthesisSucceeds(r, ans)
    \/ \E r \in RequestIds : SynthesisFails(r)
    \/ \E r \in RequestIds : TimerFires(r)
    \/ \E d \in Delays : Advance(d)
    \/ ReplySent

\* the awaits of a started task return or throw
TaskEnds(r) == SynthesisFails(r) \/ \E ans \in Answers : SynthesisSucceeds(r, ans)

\* a handler that has run sends its reply; the awaited calls of every
\* started task (the conversation store, synthesizeAnswer) return or throw,
\* and the task resumes between two handlers however many requests arrive
SpecTasks ==
    /\ Init /\ [][NextTasks]_vars
    /\ WF_vars(ReplySent)
    /\ \A r \in RequestIds : SF_vars(TaskEnds(r))

\* one client poller from its start to its last poll
NextPoll ==
    \/ \E kind \in {"webapp", "extension"} : StartPoller(kind)
    \/ \E reply \in PollOutcomes : WebappPoll(reply)
    \/ \E reply \in PollOutcomes, second \in AnswerOutcomes : ExtensionPoll(reply, second)

SpecPoll == Init /\ [][NextPoll]_vars

\* queries that continue a conversation, each from its read of the row to
\* its update of it
NextTurns ==
    \/ \E path \in TurnPaths, id \in SharedConversations : TurnLoad(path, id)
    \/ \E q \in 1 .. MaxQueries : TurnWrite(q)
    \/ \E q \in 1 .. MaxQueries : TurnFails(q)

SpecTurns == Init /\ [][NextTurns]_vars

\* the connection row from the OAuth callback to the token checks of later
\* POST /ask calls
NextConnection ==
    \/ \E lifetime \in ReportedLifetimes : GoogleCallback(lifetime)
    \/ \E lifetime \in ReportedLifetimes, unauthorized \in BOOLEAN :
            AskTokenCheck(lifetime, unauthorized)
    \/ \E d \in Delays : Advance(d)

SpecConnection == Init /\ [][NextConnection]_vars

\* the merge as its two callers invoke it
NextMerge ==
    \/ \E g \in FetchedLists("gmail"), c \in FetchedLists("calendar") : MergeSync(g, c)
    \/ \E n \in NeededLists, g \in FetchedLists("gmail"), c \in FetchedLists("calendar") :
            MergeRegister(n, g, c)
    \/ \E src \in SubmitSources, sn \in SnippetLists : MergeSubmit(src, sn)

SpecMerge == Init /\ [][NextMerge]_vars

(* =============================== claims =============================== *)

Entries == DOMAIN pendingSearches
Keys(e) == DOMAIN e.results
Needed(e) == Range(e.sources_needed)
Owner(r) == pendingSearches[r].user_id

\* the reply in resp answers an accepted dom-results call
DomDone(reply) == reply.op = "dom" /\ reply.code = 200

\* this step is an accepted dom-results call
DomStep == resp = NoResp /\ resp' # NoResp /\ DomDone(resp')

\* C1: an accepted dom-results call writes the hits under results[S]; it
\* starts one synthesis and replies 'processing' exactly when every source of
\* sources_needed then has a key in results (an empty list counts); otherwise
\* it stores status 'partial', starts nothing and replies 'partial'.
C1_CompletionDecides ==
    [][DomStep =>
        LET r == resp'.request_id
            e == pendingSearches'[r]
        IN /\ resp'.source \in Keys(e)
           /\ IF Needed(e) \subseteq Keys(e)
              THEN /\ resp'.body.status = "processing"
                   /\ inflight'[r] = inflight[r] + 1
              ELSE /\ resp'.body.status = "partial"
                   /\ e.status = "partial"
                   /\ inflight'[r] = inflight[r]]_vars

\* an empty submission for the last missing source completes the entry
C1_Witness ==
    /\ resp # NoResp /\ DomDone(resp)
    /\ resp.snippets = <<>>
    /\ resp.body.status = "processing"
    /\ Cardinality(Needed(pendingSearches[resp.request_id])) = 3
    /\ inflight[resp.request_id] = 1

\* C2: the stored status is PROCESSING exactly when the keys of results
\* equal sources_needed: it is PROCESSING as soon as the submission that
\* makes the key sets equal has returned, and never while they differ.
C2_ProcessingIffKeysEqual ==
    /\ \A r \in Entries :
          pendingSearches[r].status = "processing"
              => Keys(pendingSearches[r]) = Needed(pendingSearches[r])
    /\ (resp # NoResp /\ DomDone(resp)
            /\ Keys(pendingSearches[resp.request_id]) = Needed(pendingSearches[resp.request_id]))
          => pendingSearches[resp.request_id].status = "processing"

\* C3: the keys of results are always among sources_needed.
C3_KeysWithinNeeded ==
    \A r \in Entries : Keys(pendingSearches[r]) \subseteq Needed(pendingSearches[r])

Rank(status) ==
    CASE status = "pending" -> 0
      [] status = "partial" -> 1
      [] status = "processing" -> 2
      [] status = "complete" -> 3
      [] status = "failed" -> 3

\* C4: the stored status only moves forward along pending, partial,
\* processing, then complete or failed, and an entry with a single extension
\* source becomes complete from processing.
C4_StatusMovesForward ==
    [][\A r \in Entries \cap DOMAIN pendingSearches' :
          LET s == pendingSearches[r].status
              t == pendingSearches'[r].status
          IN /\ s = t \/ Rank(s) < Rank(t)
             /\ (/\ Cardinality(Needed(pendingSearches[r]) \cap {"linkedin", "whatsapp"}) = 1
                 /\ t = "complete" /\ s # t) => s = "processing"]_vars

\* C5: failed is entered only from processing, and once failed an entry
\* stays failed until it is deleted.
C5_FailedFromProcessingAndAbsorbing ==
    [][\A r \in Entries \cap DOMAIN pendingSearches' :
          LET s == pendingSearches[r].status
              t == pendingSearches'[r].status
          IN /\ (t = "failed" /\ s # t) => s = "processing"
             /\ s = "failed" => t = "failed"]_vars

\* C6: a complete entry has an answer, and neither its answer nor its status
\* changes afterwards until it is deleted.
C6_CompleteIsFinal ==
    [][\A r \in Entries :
          pendingSearches[r].status = "complete" =>
            /\ pendingSearches[r].answer # NoAnswer
            /\ r \in DOMAIN pendingSearches' =>
                 /\ pendingSearches'[r].status = "complete"
                 /\ pendingSearches'[r].answer = pendingSearches[r].answer]_vars

\* the hit list holds exactly these snippets, in order
HoldsExactly(hits, snippets) ==
    /\ Len(hits) = Len(snippets)
    /\ \A i \in 1 .. Len(snippets) : hits[i].content = snippets[i]

\* C7: results[S] changes only by an accepted submission for S under that
\* request, and then holds exactly the snippets of that submission (it is
\* overwritten, never appended to); no other key of results changes.
C7_LastSubmissionWins ==
    [][\A r \in Entries \cap DOMAIN pendingSearches' :
          LET old == pendingSearches[r].results
              new == pendingSearches'[r].results
              written == IF DomStep /\ resp'.request_id = r THEN {resp'.source} ELSE {}
          IN /\ DOMAIN new = DOMAIN old \cup written
             /\ \A k \in DOMAIN old \ written : new[k] = old[k]
             /\ \A k \in written : HoldsExactly(new[k], resp'.snippets)]_vars

\* a second submission for a source that already holds a hit
C7_Witness ==
    /\ resp # NoResp /\ DomDone(resp)
    /\ submissions = 2
    /\ resp.snippets # <<>>
    /\ Len(pendingSearches[resp.request_id].results[resp.source]) = 1
    /\ resp.source \in Needed(pendingSearches[resp.request_id])
    /\ pendingSearches[resp.request_id].status = "complete"

\* C8: a poll or a submission by a caller who is not the owner of an
\* existing entry is answered 403 with the fixed body, which carries nothing
\* of the entry.
C8_ForbiddenForOthers ==
    (/\ resp # NoResp
     /\ resp.op \in {"get", "status", "dom"}
     /\ resp.request_id \in Entries
     /\ Owner(resp.request_id) # resp.caller)
        => resp = [op |-> resp.op, caller |-> resp.caller, request_id |-> resp.request_id,
                   code |-> 403, body |-> [error |-> "Not authorized"]]

\* the legacy poll route refuses a foreign caller on an entry that holds an answer
C8_Witness ==
    /\ resp # NoResp
    /\ resp.op = "status"
    /\ resp.code = 403
    /\ resp.request_id \in Entries
    /\ pendingSearches[resp.request_id].answer # NoAnswer

\* C9: a poll or a submission made five minutes or more after the creation
\* of an entry that has not completed is answered not-found.
C9_UnreachableAfterFiveMinutes ==
    (/\ resp # NoResp
     /\ resp.op \in {"get", "status", "dom"}
     /\ resp.request_id \in Entries
     /\ pendingSearches[resp.request_id].status \notin {"complete", "failed"}
     /\ now >= pendingSearches[resp.request_id].created_at + FiveMinutesMs)
        => resp.code = 404

Min(S) == CHOOSE x \in S : \A y \in S : x <= y

\* the time at which the grace window of a complete entry ends
GraceEnd(r) == Min({t.at : t \in {x \in timers : x.request_id = r}})

\* C10: a complete entry is readable by its owner (status complete, with the
\* answer) until 30 seconds after it became complete and is gone afterwards,
\* whatever else happens in between.
C10_CompleteReadableForGrace ==
    [][\A r \in Entries :
          pendingSearches[r].status = "complete" =>
            /\ GetAskResponse(pendingSearches, Owner(r), r).code = 200
            /\ GetAskResponse(pendingSearches, Owner(r), r).body.status = "complete"
            /\ r \in DOMAIN pendingSearches' => now' <= GraceEnd(r)
            /\ r \notin DOMAIN pendingSearches' => now' >= GraceEnd(r)]_vars

\* C11: an entry that becomes failed is deleted 30 seconds later, as a
\* complete one is: the step that makes it failed leaves a delete timer for it
\* due at now + 30 s.
C11_FailedDeletedAfterGrace ==
    [][\A r \in Entries :
          (/\ r \in DOMAIN pendingSearches'
           /\ pendingSearches[r].status # "failed"
           /\ pendingSearches'[r].status = "failed")
             => [request_id |-> r, at |-> now' + GraceMs] \in timers']_vars

(* ----------------------- claims on one POST /ask ----------------------- *)

\* the call has ended with a registration or has reached the synthesis
ReachedFanOut(c) == c.outcome \in {"registered", "synthesized", "synthesisFailed"}

HitsFrom(hits, s) == LET FromS(h) == h.source = s IN SelectSeq(hits, FromS)

\* C12: for each synchronous fetch of a call: at most one refresh and at most
\* two attempts; a refresh is made only after a 401 on the first attempt, and
\* a 401 on the first attempt is followed by one refresh; the retry is made
\* only after a successful refresh, with the token that refresh returned; a
\* failed refresh, a failed retry or another error on the first attempt ends
\* the fetch as a failure that the call survives.
C12_RefreshOnceRetryOnce ==
    call # NoCall =>
      \A s \in SyncSources :
        LET F == call.fetch[s]
        IN /\ Len(F.attempts) <= 2
           /\ Len(F.refreshes) <= 1
           /\ Len(F.refreshes) = 1 =>
                Len(F.attempts) >= 1 /\ F.attempts[1].outcome = "unauthorized"
           /\ Len(F.attempts) = 2 =>
                /\ Len(F.refreshes) = 1
                /\ F.refreshes[1].ok
                /\ F.attempts[2].token = F.refreshes[1].token
                /\ F.attempts[2].token # F.attempts[1].token
           /\ F.ended =>
                /\ (Len(F.attempts) >= 1 /\ F.attempts[1].outcome = "unauthorized") =>
                      /\ Len(F.refreshes) = 1
                      /\ F.refreshes[1].ok => Len(F.attempts) = 2
                /\ (Len(F.attempts) >= 1 /\ F.attempts[1].outcome = "error") =>
                      Len(F.attempts) = 1 /\ F.refreshes = <<>> /\ F.failed
                /\ (Len(F.refreshes) = 1 /\ ~F.refreshes[1].ok) =>
                      Len(F.attempts) = 1 /\ F.failed
                /\ (Len(F.attempts) = 2 /\ F.attempts[2].outcome # "ok") => F.failed
                /\ (F.failed /\ call.pc = "done") => ReachedFanOut(call)

\* a calendar fetch whose retry after a refresh got a second 401, in a call
\* that has ended
C12_Witness ==
    /\ call.pc = "done"
    /\ Len(call.fetch["calendar"].attempts) = 2
    /\ call.fetch["calendar"].attempts[2].outcome = "unauthorized"
    /\ call.fetch["calendar"].failed
    /\ Len(call.fetch["gmail"].attempts) = 2
    /\ call.fetch["gmail"].attempts[2].outcome = "ok"

\* C13: one call invokes the token refresh at most twice.
C13_AtMostTwoRefreshes ==
    call # NoCall => call.refreshes <= 2

\* C14: a synchronous fetch that failed does not end the call with an error:
\* the call goes on to registration or to synthesis, the failed source has
\* no hit in what is stored or synthesized, and the hits of a source that
\* succeeded are there.
C14_FetchFailureAbsorbed ==
    call.pc = "done" =>
      \A s \in SyncSources :
        call.fetch[s].failed =>
          /\ ReachedFanOut(call)
          /\ call.outcome # "synthesisFailed" =>
                resp.code = 200 /\ resp.body.status \in {"complete", "pending"}
          /\ HitsFrom(call.results, s) = <<>>
          /\ \A t \in SyncSources :
                (call.fetch[t].ended /\ ~call.fetch[t].failed) =>
                   HitsFrom(call.results, t) = HitsOf(t)
          /\ call.outcome = "registered" =>
                /\ pendingSearches[call.request_id].results[s] = <<>>
                /\ \A t \in SyncSources :
                      (call.fetch[t].ended /\ ~call.fetch[t].failed) =>
                         pendingSearches[call.request_id].results[t] = HitsOf(t)

\* the mail fetch failed, the calendar fetch succeeded, the call registered
C14_Witness ==
    /\ call.pc = "done"
    /\ call.fetch["gmail"].failed
    /\ call.fetch["calendar"].ended
    /\ ~call.fetch["calendar"].failed
    /\ call.outcome = "registered"
    /\ resp.body.status = "pending"

\* C15: sources_searched of a 'complete' reply of POST /ask holds no
\* synchronous source whose fetch failed.
C15_SearchedExcludesFailed ==
    (call.pc = "done" /\ call.outcome = "synthesized") =>
      \A s \in SyncSources :
        call.fetch[s].failed => s \notin Range(resp.body.sources_searched)

\* the analysis asks for no extension source, or async mode is off
SynchronousCase(c) ==
    \/ ~c.enableAsyncMode
    \/ (~c.analysis.needsLinkedIn /\ ~c.analysis.needsWhatsApp)

\* C16: a call whose analysis needs no extension source, or whose caller has
\* async mode off, never changes the store, and what it returns after its
\* analysis is status complete or the processing error, never pending.
C16_SynchronousLeavesStore ==
    [][/\ pendingSearches' # pendingSearches =>
            /\ call.pc = "decide"
            /\ call.enableAsyncMode
            /\ call.analysis.needsLinkedIn \/ call.analysis.needsWhatsApp
       /\ (/\ call.pc = "decide"
           /\ call'.pc = "done"
           /\ SynchronousCase(call')) =>
              /\ resp'.op = "ask"
              /\ \/ resp'.code = 500 /\ resp'.body.error = "Failed to process query"
                 \/ resp'.code = 200 /\ resp'.body.status = "complete"]_vars

\* an extension source is needed but async mode is off: the call completes
\* inline beside a registered entry
C16_Witness ==
    /\ call.pc = "done"
    /\ call.analysis.needsLinkedIn
    /\ ~call.enableAsyncMode
    /\ resp.code = 200
    /\ resp.body.status = "complete"
    /\ pendingSearches # <<>>

(* --------------- claims on the synthesis task and the polls ------------- *)

\* C17: the dom-results call that completes an entry replies 'processing'
\* with the synthesis still to run and the entry's status and answer as they
\* were; the end of a synthesis produces no reply and changes no reply, and a
\* failing one changes nothing but the entry's status, to failed.
C17_FailureStaysInBackground ==
    [][/\ (DomStep /\ resp'.body.status = "processing") =>
            LET r == resp'.request_id
            IN /\ resp'.body = [status |-> "processing", request_id |-> r]
               /\ inflight'[r] = inflight[r] + 1
               /\ pendingSearches'[r].status = pendingSearches[r].status
               /\ pendingSearches'[r].answer = pendingSearches[r].answer
       /\ \A r \in Entries :
            (r \in DOMAIN pendingSearches' /\ inflight'[r] < inflight[r]) =>
               /\ resp = NoResp
               /\ resp' = NoResp
               /\ pendingSearches'[r].status \in {"complete", "failed"}
               /\ pendingSearches'[r].status = "failed" =>
                     /\ pendingSearches' = [pendingSearches EXCEPT ![r].status = "failed"]
                     /\ timers' = timers]_vars

\* a synthesis has failed after its submission was answered
C17_Witness ==
    \E r \in Entries :
        /\ pendingSearches[r].status = "failed"
        /\ inflight[r] = 0
        /\ resp = NoResp

\* C18: an entry whose status is failed has no answer.
C18_FailedHasNoAnswer ==
    \A r \in Entries :
        pendingSearches[r].status = "failed" => pendingSearches[r].answer = NoAnswer

\* the reply in resp answers a poll on either route
IsPoll(reply) == reply.op \in {"get", "status"}

\* C19: a poll by the owner of an existing entry is answered 200 with the
\* entry's status, its request id and its sources_needed, and with the
\* entry's answer only if the status is complete.
C19_PollShowsEntry ==
    (/\ IsPoll(resp)
     /\ resp.request_id \in Entries
     /\ Owner(resp.request_id) = resp.caller) =>
        LET e == pendingSearches[resp.request_id]
        IN /\ resp.code = 200
           /\ resp.body.status = e.status
           /\ resp.body.request_id = resp.request_id
           /\ resp.body.sources_needed = e.sources_needed
           /\ "answer" \in DOMAIN resp.body =>
                 e.status = "complete" /\ resp.body.answer = e.answer

\* the owner polls a failed entry that still holds the answer of an earlier
\* synthesis: the reply has no answer
C19_Witness ==
    /\ IsPoll(resp)
    /\ resp.code = 200
    /\ resp.body.status = "failed"
    /\ pendingSearches[resp.request_id].answer # NoAnswer

\* C20: in every state the two poll routes give every caller the same status
\* code and body for every request id, a poll on either route is answered
\* with exactly that, and it changes nothing of the store.
C20_PollRoutesEquivalent ==
    [][/\ \A u \in Users, r \in RequestIds :
            GetAskResponse(pendingSearches, u, r) = GetAskStatusResponse(pendingSearches, u, r)
       /\ (resp = NoResp /\ IsPoll(resp')) =>
            /\ UNCHANGED <<pendingSearches, inflight, timers>>
            /\ resp'.code =
                 GetAskResponse(pendingSearches, resp'.caller, resp'.request_id).code
            /\ resp'.body =
                 GetAskResponse(pendingSearches, resp'.caller, resp'.request_id).body
            /\ resp'.code =
                 GetAskStatusResponse(pendingSearches, resp'.caller, resp'.request_id).code
            /\ resp'.body =
                 GetAskStatusResponse(pendingSearches, resp'.caller, resp'.request_id).body]_vars

\* the route GET /ask/:requestId answers the owner with a complete entry
C20_Witness ==
    /\ resp.op = "get"
    /\ resp.code = 200
    /\ resp.body.status = "complete"
    /\ "answer" \in DOMAIN resp.body

(* ---------------- claims on the intake of one POST /ask ---------------- *)

\* the body is malformed: no query, an empty one, one over 1000 characters,
\* or a conversation id that is no UUID
Malformed(body) ==
    \/ body.query = Absent
    \/ body.query = 0
    \/ body.query > 1000
    \/ body.conversationId = NotAUuid

\* the call has not refreshed, classified, fetched, synthesized or registered
NothingDone(c) ==
    /\ c.refreshes = 0
    /\ c.analysis = NoAnalysis
    /\ \A s \in SyncSources : c.fetch[s] = NoFetch
    /\ c.results = <<>>
    /\ c.answer = NoAnswer
    /\ c.request_id = 0

\* C21: a call with a malformed body ends in its first step with the reply
\* 400 'Invalid request body'; that step changes no conversation row and no
\* pending entry, and the call has inserted no usage event, refreshed no
\* token and fetched no source.
C21_MalformedRejectedFirst ==
    [][(call = NoCall /\ call' # NoCall /\ Malformed(call'.intake.body)) =>
          /\ call'.pc = "done"
          /\ resp'.op = "ask"
          /\ resp'.code = 400
          /\ resp'.body = [error |-> "Invalid request body"]
          /\ conversations' = conversations
          /\ pendingSearches' = pendingSearches
          /\ call'.intake.usageEvents = 0
          /\ call'.intake.deletedConversations = <<>>
          /\ ~call'.intake.createdConversation
          /\ NothingDone(call')]_vars

\* a query of 1001 characters is rejected while a pending entry is stored
C21_Witness ==
    /\ call.pc = "done"
    /\ call.intake.body.query = MaxQueryLength + 1
    /\ resp.code = 400
    /\ pendingSearches # <<>>

\* the call ends here with this error, having done nothing past the lookup
FailsWith(code, name) ==
    /\ call'.pc = "done"
    /\ resp'.op = "ask"
    /\ resp'.code = code
    /\ resp'.body.code = name
    /\ NothingDone([call' EXCEPT !.refreshes = 0])
    /\ pendingSearches' = pendingSearches

\* C22: a call whose connection row is missing ends with 400
\* GOOGLE_NOT_CONNECTED, one whose tokens do not decrypt with 500
\* DECRYPTION_FAILED, one whose proactive refresh fails with 400
\* TOKEN_REFRESH_FAILED; none of them classifies, fetches, synthesizes or
\* stores a pending entry.
C22_ConnectivityErrorsFailAtOnce ==
    [][/\ call.pc = "connection" =>
            /\ ~call'.googleConnection.found => FailsWith(400, "GOOGLE_NOT_CONNECTED")
            /\ (call'.googleConnection.found /\ ~call'.googleConnection.decryptable) =>
                   FailsWith(500, "DECRYPTION_FAILED")
       /\ (/\ call.pc = "refresh"
           /\ call'.refreshes = call.refreshes + 1
           /\ call'.accessToken = call.accessToken) =>
              FailsWith(400, "TOKEN_REFRESH_FAILED")]_vars

\* the tokens of the connection row do not decrypt
C22_Witness ==
    /\ call.pc = "done"
    /\ call.googleConnection.found
    /\ ~call.googleConnection.decryptable
    /\ resp.code = 500

\* the call is past the expiry test of a usable connection row
PastTokenCheck(c) ==
    /\ c.pc \notin {"none", "cleanup", "load", "create", "usage", "connection"}
    /\ c.googleConnection.found
    /\ c.googleConnection.decryptable

\* C23: the proactive refresh is made exactly when the stored expiry is
\* absent or not later than the instant of the test, and then no fetch uses
\* the stored token.
C23_RefreshIffExpired ==
    PastTokenCheck(call) =>
       LET e == call.googleConnection.token_expires_at
           expired == ~e.known \/ e.at <= call.checkedAt
       IN /\ expired <=> (call.pc = "refresh" \/ call.proactive)
          /\ expired =>
                \A s \in SyncSources :
                   \A i \in 1 .. Len(call.fetch[s].attempts) :
                      call.fetch[s].attempts[i].token # 0

\* the conversation block of the call has ended
ConversationSettled(c) == c.pc = "usage"

\* C24: after the conversation block: if no conversation id came, or its row
\* did not exist, or the row was updated more than ten minutes before the
\* lookup, then the history is empty, an expired row is deleted and a new row
\* with no messages is the conversation of the call; otherwise the history is
\* the row's messages, the row is the conversation of the call and no row
\* was created.
C24_SessionFreshOrReused ==
    ConversationSettled(call) =>
       LET id == call.intake.body.conversationId
           deleted == call.intake.deletedConversations
           existed == id \in DOMAIN conversations \/ id \in DOMAIN deleted
           row == IF id \in DOMAIN deleted THEN deleted[id] ELSE conversations[id]
           expired == existed /\ row.updated_at < call.intake.loadedAt - TenMinutesMs
       IN IF id = Absent \/ ~existed \/ expired
          THEN /\ call.conversationHistory = <<>>
               /\ expired => id \notin DOMAIN conversations
               /\ call.intake.createdConversation
               /\ call.currentConversationId \in DOMAIN conversations
               /\ call.currentConversationId # id
               /\ conversations[call.currentConversationId].messages = <<>>
          ELSE /\ call.conversationHistory = row.messages
               /\ call.currentConversationId = id
               /\ ~call.intake.createdConversation

PosIn(seq, h) == CHOOSE i \in 1 .. Len(seq) : seq[i] = h

RelevancesOf(hits) == [i \in 1 .. Len(hits) |-> hits[i].relevance]

\* C25: a merge that has run returns exactly the hits of its input sets,
\* ordered by relevance descending, hits of equal relevance in the order of
\* the concatenated input; the input of the synthesis task lists the gmail
\* hits, then the calendar hits, then the out-of-band sources in the order
\* of their first submission; merge([A, B]) with A = [0.9, 0.4] and
\* B = [0.95] is [B:0.95, A:0.9, A:0.4].
C25_MergeOrdered ==
    merging.path # "none" /\ merging.ran =>
        LET in == Flatten(merging.input)
            out == merging.output
        IN /\ Len(out) = Len(in)
           /\ Range(out) = Range(in)
           /\ \A i, j \in 1 .. Len(out) :
                  i < j => /\ out[i].relevance >= out[j].relevance
                           /\ out[i].relevance = out[j].relevance
                                  => PosIn(in, out[i]) < PosIn(in, out[j])
           /\ merging.path = "background" =>
                  /\ Len(merging.input) = Len(merging.object)
                  /\ merging.object[1].key = "gmail"
                  /\ merging.object[2].key = "calendar"
                  /\ \A k \in 1 .. Len(merging.input) :
                         \A i \in 1 .. Len(merging.input[k]) :
                             merging.input[k][i].source = merging.object[k].key
           /\ merging.path = "sync" =>
                  /\ Len(merging.input) = 1
                  /\ \A i, j \in 1 .. Len(in) :
                         in[i].source = "calendar" /\ in[j].source = "gmail" => j < i
           /\ (/\ Len(merging.input) >= 2
               /\ \A k \in 3 .. Len(merging.input) : merging.input[k] = <<>>
               /\ RelevancesOf(merging.input[1]) = <<90, 40>>
               /\ RelevancesOf(merging.input[2]) = <<95>>)
                  => /\ RelevancesOf(out) = <<95, 90, 40>>
                     /\ out = <<merging.input[2][1], merging.input[1][1],
                                merging.input[1][2]>>

\* a synthesis task has merged three sets holding two hits of equal relevance
C25_Witness ==
    /\ merging.path = "background" /\ merging.ran
    /\ Len(merging.input) = 3
    /\ \E h \in Range(merging.output) : h.source = "gmail" /\ h.relevance = 95
    /\ \E i, j \in 1 .. Len(merging.output) :
           /\ i < j
           /\ merging.output[i].relevance = merging.output[j].relevance
           /\ merging.output[i].source # merging.output[j].source

\* the example of the contract has been merged by a synthesis task
C25_Example ==
    /\ merging.path = "background" /\ merging.ran
    /\ Len(merging.input) = 3 /\ merging.input[3] = <<>>
    /\ RelevancesOf(merging.input[1]) = <<90, 40>>
    /\ RelevancesOf(merging.input[2]) = <<95>>

\* C26: an entry of the store for which some source of sources_needed has
\* no results key has status pending or partial and no synthesis task: no
\* time-out ever completes it, only the sweep removes it.
C26_IncompleteStaysOpen ==
    \A r \in Entries :
        ~(Needed(pendingSearches[r]) \subseteq Keys(pendingSearches[r])) =>
            /\ pendingSearches[r].status \in {"pending", "partial"}
            /\ inflight[r] = 0

\* a submission has been stored in an entry that still misses a source, and
\* time has passed since
C26_Witness ==
    \E r \in Entries :
        /\ ~(Needed(pendingSearches[r]) \subseteq Keys(pendingSearches[r]))
        /\ pendingSearches[r].status = "partial"
        /\ now > pendingSearches[r].created_at

\* C28: the synthesis task of a request is started at most once: a step
\* that starts one finds no task of that request running and the entry
\* neither complete nor failed, whatever submissions arrive and whenever.
C28_SynthesisSpawnedOnce ==
    [][\A r \in Entries :
          inflight'[r] > inflight[r] =>
            /\ inflight[r] = 0
            /\ pendingSearches[r].status \notin {"complete", "failed"}]_vars

\* C27: under fairness of the awaited calls, a request that has a synthesis
\* task running eventually has status complete or failed, unless its entry
\* is deleted first; the number of its running tasks returns to zero.
C27_SynthesisTerminates ==
    \A r \in RequestIds :
        (r \in Entries /\ inflight[r] > 0) ~>
            (r \notin Entries \/ (inflight[r] = 0 /\ pendingSearches[r].status \in {"complete", "failed"}))

\* the task of a request has ended and left its entry complete
C27_Witness ==
    \E r \in Entries :
        /\ inflight[r] = 0
        /\ pendingSearches[r].status = "complete"
        /\ \E t \in timers : t.request_id = r

\* the source is needed and analyzeQuery extracted keywords for it
Wanted(a, s) ==
    \/ s = "linkedin" /\ a.needsLinkedIn /\ a.linkedInKeywords # <<>>
    \/ s = "whatsapp" /\ a.needsWhatsApp /\ a.whatsAppKeywords # <<>>

KeywordsFor(a, s) == IF s = "linkedin" THEN a.linkedInKeywords ELSE a.whatsAppKeywords

\* C29: the step of POST /ask that registers an entry stores in it exactly
\* one instruction for each extension source that is needed and has
\* keywords, and none for another source; each instruction carries the
\* request_id of the entry and the keywords of its source; the 'pending'
\* reply returns the stored list; and the instructions of an entry that
\* stays in the store never change.
C29_InstructionsAtIntake ==
    [][/\ (call.pc = "decide" /\ call'.pc = "done" /\ call'.outcome = "registered") =>
             /\ call'.request_id \in DOMAIN pendingSearches'
             /\ LET e == pendingSearches'[call'.request_id]
                    ins == e.instructions
                    a == call'.analysis
                IN /\ e.request_id = call'.request_id
                   /\ \A s \in {"linkedin", "whatsapp", "gmail", "calendar"} :
                          Cardinality({i \in 1 .. Len(ins) : ins[i].source = s})
                              = IF Wanted(a, s) THEN 1 ELSE 0
                   /\ \A i \in 1 .. Len(ins) :
                          /\ ins[i].request_id = e.request_id
                          /\ ins[i].keywords = KeywordsFor(a, ins[i].source)
                   /\ resp'.body.status = "pending"
                   /\ resp'.body.request_id = e.request_id
                   /\ resp'.body.instructions = ins
       /\ \A r \in Entries \cap DOMAIN pendingSearches' :
              pendingSearches'[r].instructions = pendingSearches[r].instructions]_vars

\* an entry was registered for a plan that needs both extension sources and
\* has keywords for one of them only
C29_Witness ==
    /\ call.pc = "done" /\ call.outcome = "registered"
    /\ call.analysis.needsLinkedIn /\ call.analysis.needsWhatsApp
    /\ call.analysis.whatsAppKeywords = <<>>
    /\ call.request_id \in Entries
    /\ Len(pendingSearches[call.request_id].instructions) = 1

\* C30: a poller sets no further poll once a poll has reported complete or
\* failed; a poll that finds no entry ends the polling with a failure shown;
\* and a poller shows the request as complete only if one of its polls
\* reported complete.
C30_PollerStopsAndReportsTruly ==
    poller.kind # "none" =>
        /\ poller.last \in {"complete", "failed"} => ~poller.scheduled
        /\ poller.last = "notFound" => ~poller.scheduled /\ poller.shown = "error"
        /\ poller.shown = "complete" => poller.sawComplete

\* C31: the hits stored under gmail and calendar at registration are final:
\* no step changes results.gmail or results.calendar of an entry that stays
\* in the store, whatever source name a submission carries.
C31_SeededHitsFinal ==
    [][\A r \in Entries \cap DOMAIN pendingSearches' :
          /\ pendingSearches'[r].results["gmail"] = pendingSearches[r].results["gmail"]
          /\ pendingSearches'[r].results["calendar"] = pendingSearches[r].results["calendar"]]_vars

\* C32: the step of POST /ask that answers 'pending' returns at least one
\* instruction, and the entry it stores needs an extension source that has
\* no key in results yet.
C32_PendingAwaitsASource ==
    [][(call.pc = "decide" /\ call'.pc = "done" /\ call'.outcome = "registered") =>
          /\ Len(resp'.body.instructions) >= 1
          /\ \E s \in Needed(pendingSearches'[call'.request_id]) :
                 /\ IsExtensionSource(s)
                 /\ s \notin Keys(pendingSearches'[call'.request_id])]_vars

IsSubSeq(small, big) ==
    \E i \in 0 .. Len(big) - Len(small) :
        \A k \in 1 .. Len(small) : big[i + k] = small[k]

\* C33: the messages of a conversation contain the user/assistant turn of
\* every query that continued it and reached completion.
C33_NoTurnLost ==
    \A q \in DOMAIN turns :
        turns[q].pc = "complete" =>
            LET id == turns[q].conversation_id
                messages == conversations[id].messages
                added == SubSeq(messages, Len(InitialConversations[id].messages) + 1,
                                Len(messages))
            IN IsSubSeq(TurnOf(q), added)

\* C34: a dom-results call that is answered 404 or 403 changes nothing: the
\* store, the running synthesis tasks and the timers are as before.
C34_RejectedSubmissionChangesNothing ==
    [][(resp = NoResp /\ resp'.op = "dom" /\ resp'.code \in {403, 404}) =>
          /\ pendingSearches' = pendingSearches
          /\ inflight' = inflight
          /\ timers' = timers]_vars

\* a submission of a foreign caller to an entry that holds a submission of
\* its owner was refused
C34_Witness ==
    /\ resp # NoResp /\ resp.op = "dom"
    /\ resp.code = 403
    /\ resp.request_id \in Entries
    /\ pendingSearches[resp.request_id].status = "partial"

\* the number of the proactive refresh, if the call made one and went on
ProactiveCount(c) == IF c.proactive THEN 1 ELSE 0

\* the token a fetch attempt has to carry: that of the latest refresh that
\* succeeded before it (refreshes are numbered in the order of the calls, 0
\* is the token read from the connection row)
TokenDue(c, s, i) ==
    LET p == ProactiveCount(c)
        g == c.fetch["gmail"].refreshes
        gmailOk == Len(g) = 1 /\ g[1].ok
    IN IF s = "gmail"
       THEN IF i = 1 THEN p ELSE p + 1
       ELSE IF i = 1 THEN (IF gmailOk THEN p + 1 ELSE p)
            ELSE p + Len(g) + 1

\* C35: every fetch attempt of a POST /ask call carries the access token of
\* the latest successful refresh made before it in that call (proactive, or
\* reactive for this or the earlier source), and the stored token only if
\* no refresh has succeeded yet.
C35_LatestTokenUsed ==
    call.pc \notin {"none", "cleanup", "load", "create", "usage", "connection"} =>
        \A s \in SyncSources :
            \A i \in 1 .. Len(call.fetch[s].attempts) :
                call.fetch[s].attempts[i].token = TokenDue(call, s, i)

\* the first calendar attempt carried the token of the reactive refresh made
\* for gmail, the call having made no proactive refresh
C35_Witness ==
    /\ call.pc \notin {"none", "cleanup", "load", "create", "usage", "connection"}
    /\ ~call.proactive
    /\ Len(call.fetch["gmail"].refreshes) = 1 /\ call.fetch["gmail"].refreshes[1].ok
    /\ Len(call.fetch["calendar"].attempts) >= 1
    /\ call.fetch["calendar"].attempts[1].token = 1

\* C36: the sources_needed of the 'pending' reply of POST /ask are those of
\* the entry it registered, every 200 poll reply reports the sources_needed
\* of the entry, and the entry's list never changes: the pending reply and
\* the polls of a request report the same set of sources.
C36_SameSourcesNeeded ==
    [][/\ (resp = NoResp /\ resp'.op = "ask" /\ resp'.code = 200
              /\ resp'.body.status = "pending") =>
             Range(resp'.body.sources_needed)
                 = Needed(pendingSearches'[resp'.body.request_id])
       /\ (resp = NoResp /\ IsPoll(resp') /\ resp'.code = 200) =>
             resp'.body.sources_needed = pendingSearches'[resp'.request_id].sources_needed
       /\ \A r \in Entries \cap DOMAIN pendingSearches' :
             pendingSearches'[r].sources_needed = pendingSearches[r].sources_needed]_vars

\* the request ids handed out so far
Issued == {r \in RequestIds : r < nextId}

RoundsAllowed(kind) == IF kind = "webapp" THEN 30 ELSE 60

\* C38: the extension poller runs at most 60 rounds of polling and the
\* webapp poller at most 30, and a poller that sets no further poll shows a
\* final state.
C38_PollingBounded ==
    poller.kind # "none" =>
        /\ poller.polls <= RoundsAllowed(poller.kind)
        /\ poller.polls = RoundsAllowed(poller.kind) => ~poller.scheduled
        /\ ~poller.scheduled => poller.shown # "none"

\* C39: the token_expires_at that the OAuth callback stores is the expiry
\* instant the provider reported, or the time of the callback plus one hour
\* if it reported none; and no POST /ask made after that instant finds the
\* row of the callback unexpired.
C39_CallbackStoresExpiryInstant ==
    google_connections.via = "callback" =>
        /\ google_connections.token_expires_at.known
        /\ google_connections.token_expires_at.at
               = IF google_connections.expiry_date.known
                 THEN google_connections.expiry_date.at
                 ELSE google_connections.issued_at + 3600000
        /\ (/\ google_connections.checked.made
            /\ google_connections.expiry_date.known
            /\ google_connections.expiry_date.at < google_connections.checked.at)
               => google_connections.checked.refreshed

====
